---- MODULE Spec2Model ----
(***************************************************************************)
(* Model of the limit order book of src/lib/src/orderbook: the bump arena  *)
(* (arena.rs), the price points and entries (types.rs) and the matching     *)
(* engine (engine.rs).  Every public call of OrderBook is one action; the  *)
(* loops of limit_order and match_at_price are recursive operators that    *)
(* follow the code statement by statement.                                  *)
(*                                                                         *)
(* Option<T> is modelled by the integers: None is -1, Some(x) is x.        *)
(* Arena indices are 0-based as in the code; entry i is entries[i + 1].    *)
(***************************************************************************)
EXTENDS Integers, Sequences, FiniteSets, TLC

\* ---------------------------------------------------------------- bounds
\* with_capacity(max_price, max_orders): a book has max_price price levels and
\* an arena of min_orders or of max_orders slots
max_price == 3
min_orders == 1
max_orders == 3
\* limit_order is called at most MaxCalls times, with quantities 1..MaxQty
MaxCalls == 3
MaxQty == 2
\* Price is u32 (types.rs 77); the model keeps PriceBits bits of it, enough
\* for the prices of a book of 2^PriceBits levels
PriceBits == 2

Traders == {"T1", "T2"}
Sides == {"Buy", "Sell"}
Prices == 0 .. (max_price - 1)
Quantities == 1 .. MaxQty
\* cancel_order is called with these ids
OrderIds == 1 .. MaxCalls

None == -1

\* u32::MAX of engine.rs 159, cut to the largest integer TLC has; find_prev_bid
\* clamps it to bids.len() - 1 before any use
u32_MAX == 2147483647

VARIABLES
    bids,           \* OrderBook.bids: price -> PricePoint
    asks,           \* OrderBook.asks: price -> PricePoint
    arena,          \* OrderBook.arena: [entries, next_free]
    order_index,    \* OrderBook.order_index: OrderId -> arena index
    bid_max,        \* OrderBook.bid_max: Option<Price>
    ask_min,        \* OrderBook.ask_min: Option<Price>
    next_order_id,  \* OrderBook.next_order_id
    trades,         \* OrderBook.trades: the trade log
    status,         \* "ready", or how the last call failed to return
    ret,            \* history: the last call, its arguments and its result
    slots,          \* history: side, limit price and rested quantity per slot
    cancelled,      \* history: ids for which cancel_order returned true
    returned,       \* history: ids that limit_order calls have returned
    calls,          \* history: the number of limit_order calls made
    submitted,      \* history: the quantities of the returned limit orders, summed
    cancelled_open  \* history: the quantities open at cancellation, summed

book == <<bids, asks, arena, order_index, bid_max, ask_min, next_order_id, trades>>
vars == <<bids, asks, arena, order_index, bid_max, ask_min, next_order_id, trades,
          status, ret, slots, cancelled, returned, calls, submitted,
          cancelled_open>>

\* ------------------------------------------------------------- helpers
Min2(a, b) == IF a <= b THEN a ELSE b

SetMin(S) == CHOOSE x \in S : \A y \in S : x <= y

SetMax(S) == CHOOSE x \in S : \A y \in S : x >= y

RECURSIVE SumQty(_)
SumQty(ts) == IF ts = <<>> THEN 0 ELSE Head(ts).quantity + SumQty(Tail(ts))

\* HashMap::remove
MapRemove(m, k) == [x \in (DOMAIN m) \ {k} |-> m[x]]

\* HashMap::insert
MapInsert(m, k, v) == [x \in (DOMAIN m) \cup {k} |-> IF x = k THEN v ELSE m[x]]

\* ------------------------------------------------------------ types.rs
\* faulty variant: price and quantity, both u32, change places
TradeNewSwapped(buyer, seller, price, quantity) ==
    [buyer |-> buyer, seller |-> seller, price |-> quantity, quantity |-> price]

\* faulty variant: a trade between an order and one of the same trader is
\* recorded with quantity 0
TradeNewSelfTradeVoid(buyer, seller, price, quantity) ==
    [buyer |-> buyer, seller |-> seller, price |-> price,
     quantity |-> IF buyer = seller THEN 0 ELSE quantity]

\* faulty variant: buyer and seller, both TraderId, change places
TradeNewPartiesSwapped(buyer, seller, price, quantity) ==
    [buyer |-> seller, seller |-> buyer, price |-> price, quantity |-> quantity]

TradeNew(buyer, seller, price, quantity) ==
    [buyer |-> buyer, seller |-> seller, price |-> price, quantity |-> quantity]

\* faulty variant: an order rests with quantity 1 whatever remains of it
OrderEntryNewUnit(order_id, trader, quantity) ==
    [order_id |-> order_id, trader |-> trader, quantity |-> 1, next_idx |-> None]

OrderEntryNew(order_id, trader, quantity) ==
    [order_id |-> order_id, trader |-> trader, quantity |-> quantity, next_idx |-> None]

\* faulty variant: a dead entry counts as active
is_activeAlways(entry) == entry.quantity >= 0

is_active(entry) == entry.quantity > 0

\* faulty variant: the cancelled entry also drops its link to the next entry
cancelUnlinks(entry) == [entry EXCEPT !.quantity = 0, !.next_idx = None]

cancel(entry) == [entry EXCEPT !.quantity = 0]

PricePointDefault == [first_order_idx |-> None, last_order_idx |-> None]

is_empty(pp) == pp.first_order_idx = None

\* faulty variant: last_idx of a non-empty level stays on the old tail
push_backKeepsTail(pp, idx) ==
    IF pp.last_order_idx = None
    THEN [first_order_idx |-> idx, last_order_idx |-> idx]
    ELSE pp

\* faulty variant: the new order becomes the head of a non-empty level
push_backAsHead(pp, idx) ==
    IF pp.last_order_idx = None
    THEN [first_order_idx |-> idx, last_order_idx |-> idx]
    ELSE [first_order_idx |-> idx, last_order_idx |-> idx]

push_back(pp, idx) ==
    IF pp.last_order_idx = None
    THEN [first_order_idx |-> idx, last_order_idx |-> idx]
    ELSE [pp EXCEPT !.last_order_idx = idx]

\* ------------------------------------------------------------ arena.rs
\* OrderArena::new: entries.capacity() is the capacity asked for
ArenaNew(capacity) == [entries |-> <<>>, next_free |-> 0, capacity |-> capacity]

\* faulty variant: a full arena takes one more entry
allocateOneMore(a, entry) ==
    IF a.next_free > a.capacity
    THEN [arena |-> a, idx |-> None]
    ELSE [arena |-> [a EXCEPT !.entries = Append(a.entries, entry),
                              !.next_free = a.next_free + 1],
          idx |-> a.next_free]

\* faulty variant: the index returned is one past the slot that was written
allocateNextIndex(a, entry) ==
    IF a.next_free >= a.capacity
    THEN [arena |-> a, idx |-> None]
    ELSE [arena |-> [a EXCEPT !.entries = Append(a.entries, entry),
                              !.next_free = a.next_free + 1],
          idx |-> a.next_free + 1]

\* faulty variant: a full arena hands out its first slot again
allocateRecycles(a, entry) ==
    IF a.next_free >= a.capacity
    THEN IF a.capacity > 0
         THEN [arena |-> [a EXCEPT !.entries[1] = entry], idx |-> 0]
         ELSE [arena |-> a, idx |-> None]
    ELSE [arena |-> [a EXCEPT !.entries = Append(a.entries, entry),
                              !.next_free = a.next_free + 1],
          idx |-> a.next_free]

\* returns the arena and Option<index>
allocate(a, entry) ==
    IF a.next_free >= a.capacity
    THEN [arena |-> a, idx |-> None]
    ELSE [arena |-> [a EXCEPT !.entries = Append(a.entries, entry),
                              !.next_free = a.next_free + 1],
          idx |-> a.next_free]

\* OrderArena::get / get_mut: None when idx is out of the allocated range
ArenaHas(a, idx) == idx >= 0 /\ idx < Len(a.entries)

ArenaGet(a, idx) == a.entries[idx + 1]

ArenaSet(a, idx, entry) == [a EXCEPT !.entries[idx + 1] = entry]

\* OrderArena::len
ArenaLen(a) == Len(a.entries)

\* OrderArena::capacity: clear() on a Vec keeps its capacity
ArenaCapacity(a) == a.capacity

\* OrderArena::remaining_capacity
ArenaRemainingCapacity(a) == a.capacity - Len(a.entries)

\* faulty variant: the entries go but the bump pointer stays
ArenaClearKeepsNextFree(a) == [a EXCEPT !.entries = <<>>]

\* OrderArena::clear
ArenaClear(a) == [a EXCEPT !.entries = <<>>, !.next_free = 0]

\* ----------------------------------------------------------- engine.rs
\* the fields of struct OrderBook as one record
Self ==
    [bids |-> bids, asks |-> asks, arena |-> arena, order_index |-> order_index,
     bid_max |-> bid_max, ask_min |-> ask_min, next_order_id |-> next_order_id,
     trades |-> trades]

\* OrderBook::with_capacity
with_capacity(capacity) ==
    [bids |-> [p \in Prices |-> PricePointDefault],
     asks |-> [p \in Prices |-> PricePointDefault],
     arena |-> ArenaNew(capacity),
     order_index |-> <<>>,
     bid_max |-> None,
     ask_min |-> None,
     next_order_id |-> 1,
     trades |-> <<>>]

\* find_next_ask: the first non-empty ask level at or above start_price
find_next_ask(self, start_price) ==
    LET S == {p \in Prices : p >= start_price /\ ~is_empty(self.asks[p])}
    IN  IF S = {} THEN None ELSE SetMin(S)

\* find_prev_bid: the first non-empty bid level at or below start_price
find_prev_bid(self, start_price) ==
    LET top == Min2(start_price, max_price - 1)
        S == {p \in Prices : p <= top /\ ~is_empty(self.bids[p])}
    IN  IF S = {} THEN None ELSE SetMax(S)

\* faulty variant: the fill is not capped by the aggressor's remaining quantity
fill_quantityNoMin(remaining, entry_quantity) == entry_quantity

\* faulty variant: the whole remainder is filled by the first entry
fill_quantityWhole(remaining, entry_quantity) == remaining

\* engine.rs 209: the quantity one resting entry gives to the aggressor
fill_quantity(remaining, entry_quantity) == Min2(remaining, entry_quantity)

\* faulty variant: an entry leaves order_index at its first fill
RemoveFilledAtOnce(index, entry) == MapRemove(index, entry.order_id)

\* faulty variant: a fully filled entry stays in order_index
RemoveFilledNever(index, entry) == index

\* engine.rs 223-224: a fully filled entry leaves order_index
RemoveFilled(index, entry) ==
    IF entry.quantity = 0 THEN MapRemove(index, entry.order_id) ELSE index

\* One iteration of the while loop of match_at_price (engine.rs 199-241).
\* m = [arena, order_index, remaining, current_idx, first_active_idx, trades, fills];
\* fills lists, per trade, the arena index of the resting entry (history).
MatchIteration(m, trader, side, price) ==
    LET idx == m.current_idx
        entry == ArenaGet(m.arena, idx)
        active == is_active(entry)
        fa1 == IF active /\ m.first_active_idx = None THEN idx ELSE m.first_active_idx
        fill_qty == fill_quantity(m.remaining, entry.quantity)
        trade == IF side = "Buy"
                 THEN TradeNew(trader, entry.trader, price, fill_qty)
                 ELSE TradeNew(entry.trader, trader, price, fill_qty)
        entry2 == IF active THEN [entry EXCEPT !.quantity = entry.quantity - fill_qty]
                  ELSE entry
        fa2 == IF active /\ entry2.quantity = 0 /\ fa1 = idx THEN None ELSE fa1
        next == entry2.next_idx
        arena2 == ArenaSet(m.arena, idx, entry2)
        fa3 == IF fa2 = None /\ next # None /\ is_active(ArenaGet(arena2, next))
               THEN next ELSE fa2
    IN  [arena |-> arena2,
         order_index |-> IF active THEN RemoveFilled(m.order_index, entry2)
                         ELSE m.order_index,
         remaining |-> IF active THEN m.remaining - fill_qty ELSE m.remaining,
         current_idx |-> next,
         first_active_idx |-> fa3,
         trades |-> IF active THEN Append(m.trades, trade) ELSE m.trades,
         fills |-> IF active THEN Append(m.fills, idx) ELSE m.fills]

RECURSIVE MatchLoop(_, _, _, _)
MatchLoop(m, trader, side, price) ==
    IF m.remaining > 0 /\ m.current_idx # None
    THEN MatchLoop(MatchIteration(m, trader, side, price), trader, side, price)
    ELSE m

\* engine.rs 243-253: the price point after the loop ended in state m
UpdatePricePoint(self, side, price, m) ==
    LET price_point == IF side = "Buy" THEN self.asks[price] ELSE self.bids[price]
        pp2 == IF m.first_active_idx = None /\ m.current_idx = None
               THEN [first_order_idx |-> None, last_order_idx |-> None]
               ELSE IF m.first_active_idx # None
                    THEN [price_point EXCEPT !.first_order_idx = m.first_active_idx]
                    ELSE price_point
    IN  [self |-> IF side = "Buy"
                  THEN [self EXCEPT !.arena = m.arena, !.order_index = m.order_index,
                                    !.asks[price] = pp2]
                  ELSE [self EXCEPT !.arena = m.arena, !.order_index = m.order_index,
                                    !.bids[price] = pp2],
         remaining |-> m.remaining,
         trades |-> m.trades,
         fills |-> m.fills]

\* match_at_price: returns the book, the remaining quantity and the trades
match_at_price(self, trader, side, price, remaining) ==
    UpdatePricePoint(self, side, price,
        MatchLoop([arena |-> self.arena, order_index |-> self.order_index,
                   remaining |-> remaining,
                   current_idx |-> IF side = "Buy" THEN self.asks[price].first_order_idx
                                   ELSE self.bids[price].first_order_idx,
                   first_active_idx |-> None,
                   trades |-> <<>>, fills |-> <<>>],
                  trader, side, price))

\* faulty variant: the old tail of the level is not linked to the new entry
LinkOrderDetached(self, order_id, side, price, al) ==
    LET idx == al.idx
        price_point == IF side = "Buy" THEN self.bids[price] ELSE self.asks[price]
        pp2 == push_back(price_point, idx)
    IN  IF side = "Buy"
        THEN [self EXCEPT !.arena = al.arena,
                          !.order_index = MapInsert(self.order_index, order_id, idx),
                          !.bids[price] = pp2]
        ELSE [self EXCEPT !.arena = al.arena,
                          !.order_index = MapInsert(self.order_index, order_id, idx),
                          !.asks[price] = pp2]

\* faulty variant: the rested order is linked in front of its level
LinkOrderAtHead(self, order_id, side, price, al) ==
    LET idx == al.idx
        price_point == IF side = "Buy" THEN self.bids[price] ELSE self.asks[price]
        arena2 == ArenaSet(al.arena, idx,
                           [ArenaGet(al.arena, idx) EXCEPT
                               !.next_idx = price_point.first_order_idx])
        pp2 == IF price_point.last_order_idx = None
               THEN [first_order_idx |-> idx, last_order_idx |-> idx]
               ELSE [price_point EXCEPT !.first_order_idx = idx]
    IN  IF side = "Buy"
        THEN [self EXCEPT !.arena = arena2,
                          !.order_index = MapInsert(self.order_index, order_id, idx),
                          !.bids[price] = pp2]
        ELSE [self EXCEPT !.arena = arena2,
                          !.order_index = MapInsert(self.order_index, order_id, idx),
                          !.asks[price] = pp2]

\* faulty variant: the rested order is linked into its level but not indexed
LinkOrderNoIndex(self, order_id, side, price, al) ==
    LET idx == al.idx
        price_point == IF side = "Buy" THEN self.bids[price] ELSE self.asks[price]
        last_idx == price_point.last_order_idx
        arena2 == IF last_idx # None
                  THEN ArenaSet(al.arena, last_idx,
                                [ArenaGet(al.arena, last_idx) EXCEPT !.next_idx = idx])
                  ELSE al.arena
        pp2 == push_back(price_point, idx)
    IN  IF side = "Buy"
        THEN [self EXCEPT !.arena = arena2, !.bids[price] = pp2]
        ELSE [self EXCEPT !.arena = arena2, !.asks[price] = pp2]

\* engine.rs 271-284: the allocated entry al.idx is indexed and linked in
LinkOrder(self, order_id, side, price, al) ==
    LET idx == al.idx
        price_point == IF side = "Buy" THEN self.bids[price] ELSE self.asks[price]
        last_idx == price_point.last_order_idx
        arena2 == IF last_idx # None
                  THEN ArenaSet(al.arena, last_idx,
                                [ArenaGet(al.arena, last_idx) EXCEPT !.next_idx = idx])
                  ELSE al.arena
        pp2 == push_back(price_point, idx)
    IN  IF side = "Buy"
        THEN [self EXCEPT !.arena = arena2,
                          !.order_index = MapInsert(self.order_index, order_id, idx),
                          !.bids[price] = pp2]
        ELSE [self EXCEPT !.arena = arena2,
                          !.order_index = MapInsert(self.order_index, order_id, idx),
                          !.asks[price] = pp2]

\* engine.rs 266-277: expect() panics when allocate returned None; indexing
\* bids or asks with a price that is not a level panics once the entry is
\* allocated and entered in order_index
ExpectAllocated(self, order_id, side, price, al) ==
    IF al.idx = None
    THEN [self |-> self, panic |-> TRUE]
    ELSE IF price \notin Prices
         THEN [self |-> [self EXCEPT !.arena = al.arena,
                                     !.order_index =
                                         MapInsert(self.order_index, order_id, al.idx)],
               panic |-> TRUE]
         ELSE [self |-> LinkOrder(self, order_id, side, price, al), panic |-> FALSE]

\* add_order: panics ("Order arena capacity exceeded") when allocate fails,
\* and on a price that is not a level
add_order(self, order_id, trader, side, price, quantity) ==
    ExpectAllocated(self, order_id, side, price,
                    allocate(self.arena, OrderEntryNew(order_id, trader, quantity)))

\* Loop state of limit_order: L = [self, remaining, trades, fills, level, diverges],
\* level being ask_price (Buy) or bid_price (Sell).  An iteration that leaves
\* the book, remaining and level as they were while the loop condition holds
\* repeats forever: the loop is deterministic.

\* engine.rs 124-127: r is what match_at_price returned
BuyAdvance(L, price, r) ==
    LET nxt == find_next_ask(r.self, L.level)
    IN  [self |-> r.self, remaining |-> r.remaining,
         trades |-> L.trades \o r.trades, fills |-> L.fills \o r.fills,
         level |-> IF nxt = None THEN price + 1 ELSE nxt,
         diverges |-> FALSE]

\* faulty variant: the Buy loop moves past the limit after its first level
BuyIterationOneLevel(L, trader, price) ==
    [BuyAdvance(L, price, match_at_price(L.self, trader, "Buy", L.level, L.remaining))
        EXCEPT !.level = price + 1]

BuyIteration(L, trader, price) ==
    BuyAdvance(L, price, match_at_price(L.self, trader, "Buy", L.level, L.remaining))

\* faulty variant: an ask at exactly the limit price is not matched
BuyContinueStrict(L, price) == L.remaining > 0 /\ L.level < price

\* engine.rs 116: the condition of the Buy loop
BuyContinue(L, price) == L.remaining > 0 /\ L.level <= price

RECURSIVE BuyLoop(_, _, _)
RECURSIVE BuyRepeat(_, _, _, _)
BuyLoop(L, trader, price) ==
    IF BuyContinue(L, price)
    THEN BuyRepeat(L, BuyIteration(L, trader, price), trader, price)
    ELSE L

\* L2 is the loop state one iteration after L
BuyRepeat(L, L2, trader, price) ==
    IF L2 = L THEN [L EXCEPT !.diverges = TRUE] ELSE BuyLoop(L2, trader, price)

\* engine.rs 153-156: r is what match_at_price returned
SellAdvance(L, price, r) ==
    LET prv == find_prev_bid(r.self, L.level)
    IN  [self |-> r.self, remaining |-> r.remaining,
         trades |-> L.trades \o r.trades, fills |-> L.fills \o r.fills,
         level |-> IF prv = None THEN 0 ELSE prv,
         diverges |-> FALSE]

SellIteration(L, trader, price) ==
    SellAdvance(L, price, match_at_price(L.self, trader, "Sell", L.level, L.remaining))

\* faulty variant: the Sell loop reaches one tick below the limit
SellContinueLoose(L, price) == L.remaining > 0 /\ L.level >= price - 1

\* engine.rs 145: the condition of the Sell loop
SellContinue(L, price) == L.remaining > 0 /\ L.level >= price

RECURSIVE SellLoop(_, _, _)
RECURSIVE SellRepeat(_, _, _, _)
SellLoop(L, trader, price) ==
    IF SellContinue(L, price)
    THEN SellRepeat(L, SellIteration(L, trader, price), trader, price)
    ELSE L

\* L2 is the loop state one iteration after L
SellRepeat(L, L2, trader, price) ==
    IF L2 = L THEN [L EXCEPT !.diverges = TRUE] ELSE SellLoop(L2, trader, price)

\* faulty variant: the best ask is not looked up again after the Buy loop
RefreshAskMinKeeps(L) == L

\* engine.rs 130: the best ask is looked up again after the Buy loop
RefreshAskMin(L) ==
    IF L.diverges THEN L ELSE [L EXCEPT !.self.ask_min = find_next_ask(L.self, 0)]

\* engine.rs 159: the best bid is looked up again after the Sell loop
RefreshBidMax(L) ==
    IF L.diverges THEN L ELSE [L EXCEPT !.self.bid_max = find_prev_bid(L.self, u32_MAX)]

\* engine.rs 108-109: the loop state limit_order starts from
StartMatch(self, quantity, level) ==
    [self |-> self, remaining |-> quantity, trades |-> <<>>, fills |-> <<>>,
     level |-> level, diverges |-> FALSE]

\* faulty variant: matching starts at the order's limit price, not at the best price
MatchOppositeFromLimit(self, trader, side, price, quantity) ==
    IF side = "Buy"
    THEN IF self.ask_min # None
         THEN RefreshAskMin(BuyLoop(StartMatch(self, quantity, price), trader, price))
         ELSE StartMatch(self, quantity, None)
    ELSE IF self.bid_max # None
         THEN RefreshBidMax(SellLoop(StartMatch(self, quantity, price), trader, price))
         ELSE StartMatch(self, quantity, None)

\* The matching part of limit_order (engine.rs 112-131 and 142-160)
MatchOpposite(self, trader, side, price, quantity) ==
    IF side = "Buy"
    THEN IF self.ask_min # None
         THEN RefreshAskMin(BuyLoop(StartMatch(self, quantity, self.ask_min), trader, price))
         ELSE StartMatch(self, quantity, None)
    ELSE IF self.bid_max # None
         THEN RefreshBidMax(SellLoop(StartMatch(self, quantity, self.bid_max), trader, price))
         ELSE StartMatch(self, quantity, None)

\* faulty variant: the cached best price follows every rested order
UpdateBestAlways(self, side, price, a) ==
    IF a.panic THEN a
    ELSE IF side = "Buy"
         THEN [a EXCEPT !.self.bid_max = price]
         ELSE [a EXCEPT !.self.ask_min = price]

\* engine.rs 137-139 and 166-168: a is what add_order left; the cached best
\* price of the order's side moves to price when price improves on it
UpdateBest(self, side, price, a) ==
    IF a.panic THEN a
    ELSE IF side = "Buy"
         THEN IF self.bid_max = None \/ price > self.bid_max
              THEN [a EXCEPT !.self.bid_max = price] ELSE a
         ELSE IF self.ask_min = None \/ price < self.ask_min
              THEN [a EXCEPT !.self.ask_min = price] ELSE a

\* faulty variant: the order rests even when nothing remains of it
RestRemainderAlways(self, order_id, trader, side, price, remaining) ==
    UpdateBest(self, side, price,
               add_order(self, order_id, trader, side, price, remaining))

\* The resting part of limit_order (engine.rs 133-140 and 162-169)
RestRemainder(self, order_id, trader, side, price, remaining) ==
    IF remaining > 0
    THEN UpdateBest(self, side, price,
                    add_order(self, order_id, trader, side, price, remaining))
    ELSE [self |-> self, panic |-> FALSE]

\* faulty variant: the call's trades are put in front of the log
LimitReturnPrepends(order_id, L, a) ==
    [self |-> IF L.diverges THEN L.self
              ELSE IF a.panic THEN a.self
              ELSE [a.self EXCEPT !.trades = L.trades \o a.self.trades],
     order_id |-> order_id,
     trades |-> L.trades,
     fills |-> L.fills,
     outcome |-> IF L.diverges THEN "hung" ELSE IF a.panic THEN "panic" ELSE "returned"]

\* engine.rs 173-176: L is the matching as it ended, a the book after resting
LimitReturn(order_id, L, a) ==
    [self |-> IF L.diverges THEN L.self
              ELSE IF a.panic THEN a.self
              ELSE [a.self EXCEPT !.trades = a.self.trades \o L.trades],
     order_id |-> order_id,
     trades |-> L.trades,
     fills |-> L.fills,
     outcome |-> IF L.diverges THEN "hung" ELSE IF a.panic THEN "panic" ELSE "returned"]

\* engine.rs 133-176: what follows the matching L
LimitSettle(order_id, trader, side, price, L) ==
    LimitReturn(order_id, L,
                RestRemainder(L.self, order_id, trader, side, price, L.remaining))

\* limit_order: the book after the call (or where the call stopped), the
\* returned (order_id, trades) and how the call ended
limit_order(self, trader, side, price, quantity) ==
    LimitSettle(self.next_order_id, trader, side, price,
                MatchOpposite([self EXCEPT !.next_order_id = self.next_order_id + 1],
                              trader, side, price, quantity))

\* faulty variant: the cancelled order stays in order_index
cancel_orderKeepsIndex(self, order_id) ==
    IF order_id \in DOMAIN self.order_index /\ ArenaHas(self.arena, self.order_index[order_id])
    THEN [self |-> [self EXCEPT !.arena = ArenaSet(self.arena, self.order_index[order_id],
                                      cancel(ArenaGet(self.arena, self.order_index[order_id])))],
          result |-> TRUE]
    ELSE [self |-> self, result |-> FALSE]

\* cancel_order: the book after the call and the returned bool
cancel_order(self, order_id) ==
    IF order_id \in DOMAIN self.order_index /\ ArenaHas(self.arena, self.order_index[order_id])
    THEN [self |-> [self EXCEPT !.arena = ArenaSet(self.arena, self.order_index[order_id],
                                      cancel(ArenaGet(self.arena, self.order_index[order_id]))),
                                !.order_index = MapRemove(self.order_index, order_id)],
          result |-> TRUE]
    ELSE [self |-> self, result |-> FALSE]

\* OrderBook::set_next_order_id
set_next_order_id(self, id) == [self EXCEPT !.next_order_id = id]

\* OrderBook::best_bid
best_bid(self) == self.bid_max

\* OrderBook::best_ask
best_ask(self) == self.ask_min

\* faulty variant: the difference is returned whichever price is higher
spreadUnguarded(self) ==
    IF self.ask_min # None /\ self.bid_max # None
    THEN self.ask_min - self.bid_max
    ELSE None

\* OrderBook::spread
spread(self) ==
    IF self.ask_min # None /\ self.bid_max # None /\ self.ask_min > self.bid_max
    THEN self.ask_min - self.bid_max
    ELSE None

\* the number of values of Price
PriceModulus == 2 ^ PriceBits

\* Price + Price when the build has overflow checks off: the sum wraps
wrapping_add(a, b) == (a + b) % PriceModulus

\* Price + Price when the build has overflow checks on: the sum panics
add_overflows(a, b) == a + b >= PriceModulus

\* OrderBook::mid_price, the sum ask + bid taken in Price
mid_price(self) ==
    IF self.ask_min # None /\ self.bid_max # None
    THEN wrapping_add(self.ask_min, self.bid_max) \div 2
    ELSE None

\* engine.rs 90: the sum of mid_price does not fit in Price
mid_price_overflows(self) ==
    self.ask_min # None /\ self.bid_max # None
    /\ add_overflows(self.ask_min, self.bid_max)

\* faulty variant: clearing the log also forgets the cached best prices
clear_tradesForgetsBest(self) ==
    [self EXCEPT !.trades = <<>>, !.bid_max = None, !.ask_min = None]

\* faulty variant: clearing the log also restarts the order ids
clear_tradesResetsIds(self) == [self EXCEPT !.trades = <<>>, !.next_order_id = 1]

\* OrderBook::clear_trades
clear_trades(self) == [self EXCEPT !.trades = <<>>]

\* OrderBook::snapshot
snapshot(self) ==
    [next_order_id |-> self.next_order_id,
     bid_max |-> self.bid_max,
     ask_min |-> self.ask_min,
     active_orders |-> Cardinality(DOMAIN self.order_index),
     total_trades |-> Len(self.trades)]

\* ------------------------------------------------------------- actions
NoCall ==
    [op |-> "new", trader |-> "T1", side |-> "Buy", price |-> 0, quantity |-> 0,
     order_id |-> 0, trades |-> <<>>, fills |-> <<>>, result |-> FALSE]

Install(self) ==
    /\ bids' = self.bids
    /\ asks' = self.asks
    /\ arena' = self.arena
    /\ order_index' = self.order_index
    /\ bid_max' = self.bid_max
    /\ ask_min' = self.ask_min
    /\ next_order_id' = self.next_order_id
    /\ trades' = self.trades

Init ==
    /\ \E capacity \in {min_orders, max_orders} :
           LET self == with_capacity(capacity)
           IN  /\ bids = self.bids
               /\ asks = self.asks
               /\ arena = self.arena
               /\ order_index = self.order_index
               /\ bid_max = self.bid_max
               /\ ask_min = self.ask_min
               /\ next_order_id = self.next_order_id
               /\ trades = self.trades
    /\ status = "ready"
    /\ ret = NoCall
    /\ slots = <<>>
    /\ cancelled = {}
    /\ returned = {}
    /\ calls = 0
    /\ submitted = 0
    /\ cancelled_open = 0

\* The step of a limit_order call whose outcome is r
LimitOrderStep(r, trader, side, price, quantity) ==
    /\ Install(r.self)
    /\ status' = IF r.outcome = "returned" THEN "ready" ELSE r.outcome
    /\ ret' = [op |-> "limit_order", trader |-> trader, side |-> side,
               price |-> price, quantity |-> quantity, order_id |-> r.order_id,
               trades |-> r.trades, fills |-> r.fills,
               result |-> r.outcome = "returned"]
    /\ slots' = IF Len(r.self.arena.entries) > Len(arena.entries)
                THEN Append(slots,
                            [side |-> side, price |-> price,
                             quantity |-> ArenaGet(r.self.arena,
                                                   Len(arena.entries)).quantity])
                ELSE slots
    /\ returned' = IF r.outcome = "returned" THEN returned \cup {r.order_id}
                   ELSE returned
    /\ calls' = calls + 1
    /\ submitted' = IF r.outcome = "returned" THEN submitted + quantity
                    ELSE submitted
    /\ UNCHANGED <<cancelled, cancelled_open>>

\* A call of limit_order.  A call that does not return (it loops forever or
\* panics) leaves the book where it stopped and ends the run.
LimitOrder(trader, side, price, quantity) ==
    /\ status = "ready"
    /\ calls < MaxCalls
    /\ next_order_id <= MaxCalls
    /\ LimitOrderStep(limit_order(Self, trader, side, price, quantity),
                      trader, side, price, quantity)

\* The step of a cancel_order call whose outcome is r
CancelOrderStep(r, order_id) ==
    /\ Install(r.self)
    /\ ret' = [NoCall EXCEPT !.op = "cancel_order", !.result = r.result]
    /\ cancelled' = IF r.result THEN cancelled \cup {order_id} ELSE cancelled
    /\ cancelled_open' = IF r.result
                         THEN cancelled_open
                              + ArenaGet(arena, order_index[order_id]).quantity
                         ELSE cancelled_open
    /\ UNCHANGED <<status, slots, returned, calls, submitted>>

\* A call of cancel_order.  ret keeps the result, not the id: the step itself
\* tells which id was cancelled.
CancelOrder(order_id) ==
    /\ status = "ready"
    /\ CancelOrderStep(cancel_order(Self, order_id), order_id)

LimitOrderCall ==
    \E trader \in Traders, side \in Sides, price \in Prices, quantity \in Quantities :
        LimitOrder(trader, side, price, quantity)

CancelOrderCall == \E order_id \in OrderIds : CancelOrder(order_id)

Next == LimitOrderCall \/ CancelOrderCall

Spec == Init /\ [][Next]_vars

\* limit_order is the only call made
NextLimit == LimitOrderCall

SpecLimit == Init /\ [][NextLimit]_vars

\* A call of clear_trades
ClearTrades ==
    /\ status = "ready"
    /\ Install(clear_trades(Self))
    /\ ret' = [NoCall EXCEPT !.op = "clear_trades"]
    /\ UNCHANGED <<status, slots, cancelled, returned, calls,
                   submitted, cancelled_open>>

\* A call of one of the queries (next_order_id, best_bid, best_ask, spread,
\* mid_price, trades, snapshot): they take &self and the book has no interior
\* mutability
Query ==
    /\ status = "ready"
    /\ ret' = [NoCall EXCEPT !.op = "query"]
    /\ UNCHANGED <<book, status, slots, cancelled, returned, calls,
                   submitted, cancelled_open>>

\* limit_order, cancel_order, clear_trades and the queries
NextOps == LimitOrderCall \/ CancelOrderCall \/ ClearTrades \/ Query

SpecOps == Init /\ [][NextOps]_vars

\* A call of set_next_order_id
SetNextOrderId(id) ==
    /\ status = "ready"
    /\ Install(set_next_order_id(Self, id))
    /\ ret' = [NoCall EXCEPT !.op = "set_next_order_id"]
    /\ UNCHANGED <<status, slots, cancelled, returned, calls,
                   submitted, cancelled_open>>

SetNextOrderIdCall == \E id \in OrderIds : SetNextOrderId(id)

\* limit_order by one trader for one unit
UnitOrderCall ==
    \E side \in Sides, price \in Prices : LimitOrder("T1", side, price, 1)

\* the operations that change the book, set_next_order_id among them
NextIds == UnitOrderCall \/ CancelOrderCall \/ SetNextOrderIdCall \/ ClearTrades

SpecIds == Init /\ [][NextIds]_vars

\* limit_order with a price that is not a level of the book
OutOfRangePriceCall ==
    \E trader \in Traders, side \in Sides, quantity \in Quantities :
        LimitOrder(trader, side, max_price, quantity)

\* limit_order with quantity 0
ZeroQuantityCall ==
    \E trader \in Traders, side \in Sides, price \in Prices :
        LimitOrder(trader, side, price, 0)

\* limit_order with any u32 price and quantity the bounds allow, and cancel_order
NextAnyInput ==
    LimitOrderCall \/ CancelOrderCall \/ OutOfRangePriceCall \/ ZeroQuantityCall

SpecAnyInput == Init /\ [][NextAnyInput]_vars

\* every value of Option<Price>
OptionPrices == {None} \cup (0 .. (PriceModulus - 1))

\* spread and mid_price read bid_max and ask_min and nothing else of the book:
\* the two fields take every value of Option<Price>
InitQuery ==
    /\ \E capacity \in {min_orders, max_orders}, bid \in OptionPrices, ask \in OptionPrices :
           LET self == with_capacity(capacity)
           IN  /\ bids = self.bids
               /\ asks = self.asks
               /\ arena = self.arena
               /\ order_index = self.order_index
               /\ bid_max = bid
               /\ ask_min = ask
               /\ next_order_id = self.next_order_id
               /\ trades = self.trades
    /\ status = "ready"
    /\ ret = NoCall
    /\ slots = <<>>
    /\ cancelled = {}
    /\ returned = {}
    /\ calls = 0
    /\ submitted = 0
    /\ cancelled_open = 0

\* A call of spread; ret.value is the Option<Price> it returns
SpreadCall ==
    /\ status = "ready"
    /\ ret' = [op |-> "spread", value |-> spread(Self)]
    /\ UNCHANGED <<book, status, slots, cancelled, returned, calls,
                   submitted, cancelled_open>>

\* A call of mid_price in a build with or without overflow checks
MidPrice(overflow_checks) ==
    /\ status = "ready"
    /\ IF overflow_checks /\ mid_price_overflows(Self)
       THEN /\ status' = "panic"
            /\ ret' = [op |-> "mid_price", value |-> None]
       ELSE /\ status' = status
            /\ ret' = [op |-> "mid_price", value |-> mid_price(Self)]
    /\ UNCHANGED <<book, slots, cancelled, returned, calls,
                   submitted, cancelled_open>>

MidPriceCall == \E overflow_checks \in BOOLEAN : MidPrice(overflow_checks)

NextQuery == SpreadCall \/ MidPriceCall

SpecQuery == InitQuery /\ [][NextQuery]_vars

\* the entries given to allocate
Entries ==
    {OrderEntryNew(order_id, trader, quantity) :
        order_id \in OrderIds, trader \in Traders, quantity \in Quantities}

\* An OrderArena used on its own, created with capacity 0, min_orders or
\* max_orders.  Here ret is [op, idx, allocated, cleared]: the last call, the
\* Option<index> it returned, the number of allocate calls that have returned
\* Some, and whether clear has been called.
InitArena ==
    /\ \E capacity \in {0, min_orders, max_orders} :
           LET self == with_capacity(capacity)
           IN  /\ bids = self.bids
               /\ asks = self.asks
               /\ arena = self.arena
               /\ order_index = self.order_index
               /\ bid_max = self.bid_max
               /\ ask_min = self.ask_min
               /\ next_order_id = self.next_order_id
               /\ trades = self.trades
    /\ status = "ready"
    /\ ret = [op |-> "new", idx |-> None, allocated |-> 0, cleared |-> FALSE]
    /\ slots = <<>>
    /\ cancelled = {}
    /\ returned = {}
    /\ calls = 0
    /\ submitted = 0
    /\ cancelled_open = 0

\* The step of an allocate call that returned r
ArenaAllocateStep(r) ==
    /\ arena' = r.arena
    /\ ret' = [op |-> "allocate", idx |-> r.idx,
               allocated |-> IF r.idx # None THEN ret.allocated + 1 ELSE ret.allocated,
               cleared |-> ret.cleared]
    /\ UNCHANGED <<bids, asks, order_index, bid_max, ask_min, next_order_id, trades,
                   status, slots, cancelled, returned, calls,
                   submitted, cancelled_open>>

\* A call of allocate, as long as at most MaxCalls calls have succeeded
ArenaAllocate(entry) ==
    /\ ret.allocated <= MaxCalls
    /\ ArenaAllocateStep(allocate(arena, entry))

ArenaAllocateCall == \E entry \in Entries : ArenaAllocate(entry)

\* A call of clear
ArenaClearCall ==
    /\ arena' = ArenaClear(arena)
    /\ ret' = [op |-> "clear", idx |-> None, allocated |-> ret.allocated,
               cleared |-> TRUE]
    /\ UNCHANGED <<bids, asks, order_index, bid_max, ask_min, next_order_id, trades,
                   status, slots, cancelled, returned, calls,
                   submitted, cancelled_open>>

NextArena == ArenaAllocateCall \/ ArenaClearCall

SpecArena == InitArena /\ [][NextArena]_vars

\* ------------------------------------------------ vocabulary of the claims
SlotIds == 0 .. (Len(arena.entries) - 1)

Entry(i) == ArenaGet(arena, i)

Live(i) == Entry(i).quantity > 0

SlotSide(i) == slots[i + 1].side

SlotPrice(i) == slots[i + 1].price

SameLevel(a, b) == SlotSide(a) = SlotSide(b) /\ SlotPrice(a) = SlotPrice(b)

LiveBids == {i \in SlotIds : SlotSide(i) = "Buy" /\ Live(i)}

LiveAsks == {i \in SlotIds : SlotSide(i) = "Sell" /\ Live(i)}

HasLiveEntry(id) == \E i \in SlotIds : Entry(i).order_id = id /\ Live(i)

\* the last call was a limit_order that returned
LimitReturned == ret.op = "limit_order" /\ ret.result

\* the slots the last call filled
Filled == {ret.fills[k] : k \in 1 .. Len(ret.fills)}

\* the quantity the last limit_order left resting under its id
RestedQty ==
    LET S == {i \in SlotIds : Entry(i).order_id = ret.order_id}
    IN  IF S = {} THEN 0 ELSE Entry(CHOOSE i \in S : TRUE).quantity

\* a resting price the aggressor's limit does not reach
NonMarketable(side, limit, resting) ==
    IF side = "Buy" THEN resting > limit ELSE resting < limit

\* resting price p is strictly better for the aggressor than q
Better(side, p, q) == IF side = "Buy" THEN p < q ELSE p > q

\* the last call filled slot f, which sits behind a cancelled slot of its level
FilledBehindCancelled ==
    \E d \in SlotIds, f \in Filled :
        d < f /\ SameLevel(d, f) /\ Entry(d).order_id \in cancelled

\* -------------------------------------------------------------- claims
\* C1: after any sequence of limit_order calls, when best_bid() and best_ask()
\* are both Some, best_bid() < best_ask().
C1_NoSelfCross == (bid_max # None /\ ask_min # None) => bid_max < ask_min

\* a matching call returned and left orders on both sides
C1_Witness ==
    LimitReturned /\ Len(ret.trades) > 0 /\ bid_max # None /\ ask_min # None

\* C2: once a call of limit_order or cancel_order has returned, no live
\* resting bid has a price >= the price of a live resting ask.
C2_NoLiveCross ==
    status = "ready" =>
        \A b \in LiveBids, a \in LiveAsks : SlotPrice(b) < SlotPrice(a)

\* the aggressor filled a live order behind a cancelled one and rested its
\* remainder
C2_Witness == LimitReturned /\ FilledBehindCancelled /\ RestedQty > 0

\* C3: for every limit_order call, the quantities of the returned trades plus
\* the quantity rested for the order equal the submitted quantity.
C3_Conservation ==
    LimitReturned => SumQty(ret.trades) + RestedQty = ret.quantity

\* a call that traded and rested a remainder
C3_Witness == LimitReturned /\ Len(ret.trades) > 0 /\ RestedQty > 0

\* C4: of two orders A then B resting at the same price on the same side, B
\* is filled by a step only if that step leaves A with quantity 0.
C4_FifoWithinLevel ==
    [][\A a \in SlotIds, b \in SlotIds :
          (/\ a < b
           /\ SameLevel(a, b)
           /\ ret'.op = "limit_order"
           /\ ArenaGet(arena', b).quantity < Entry(b).quantity)
          => ArenaGet(arena', a).quantity = 0]_vars

\* one aggressor filled A completely and then B
C4_Witness ==
    /\ LimitReturned
    /\ \E a \in Filled, b \in Filled : a < b /\ SameLevel(a, b) /\ ~Live(a)

\* C5: within one limit_order call a Buy fills asks in non-decreasing price
\* order and a Sell fills bids in non-increasing price order, and no order
\* at a strictly better price than a trade of the call is left live.
C5_BestPriceFirst ==
    ret.op = "limit_order" =>
        /\ \A k \in 1 .. (Len(ret.trades) - 1) :
              ~Better(ret.side, ret.trades[k + 1].price, ret.trades[k].price)
        /\ \A k \in 1 .. Len(ret.trades) :
              \A i \in SlotIds :
                  (SlotSide(i) # ret.side /\ Live(i))
                  => ~Better(ret.side, SlotPrice(i), ret.trades[k].price)

\* one call traded at two price levels
C5_Witness ==
    LimitReturned /\ Len(ret.trades) >= 2 /\ ret.trades[1].price # ret.trades[2].price

\* C6: every trade's price is the limit price of the resting order it filled.
C6_TradeAtRestingPrice ==
    ret.op = "limit_order" =>
        \A k \in 1 .. Len(ret.trades) :
            ret.trades[k].price = SlotPrice(ret.fills[k])

\* a trade whose price is not the aggressor's limit price
C6_Witness ==
    LimitReturned /\ \E k \in 1 .. Len(ret.trades) : ret.trades[k].price # ret.price

\* C7: a Buy with limit p trades at prices <= p, a Sell at prices >= p, and
\* the call changes no opposite entry resting at a non-marketable price.
C7_LimitRespected ==
    [][ret'.op = "limit_order" =>
          /\ \A k \in 1 .. Len(ret'.trades) :
                ~NonMarketable(ret'.side, ret'.price, ret'.trades[k].price)
          /\ \A i \in SlotIds :
                (SlotSide(i) # ret'.side /\ NonMarketable(ret'.side, ret'.price, SlotPrice(i)))
                => ArenaGet(arena', i) = Entry(i)]_vars

\* a call traded while a live opposite order rests out of its reach
C7_Witness ==
    /\ LimitReturned
    /\ Len(ret.trades) > 0
    /\ \E i \in SlotIds :
          SlotSide(i) # ret.side /\ Live(i) /\ NonMarketable(ret.side, ret.price, SlotPrice(i))

\* C8: cancel_order(id) returns true at most once per id: a call with an id
\* for which it has returned true returns false.
C8_CancelOnce ==
    [][\A id \in OrderIds : (CancelOrder(id) /\ ret'.result) => id \notin cancelled]_vars

\* every order was cancelled and one more cancel_order was refused
C8_Witness ==
    /\ ret.op = "cancel_order"
    /\ ~ret.result
    /\ next_order_id = MaxCalls + 1
    /\ cancelled = OrderIds

\* no limit_order call has returned this id
NeverAssigned(id) == id >= next_order_id

\* the order with this id was assigned, was not cancelled and is not live
FilledByMatching(id) == id < next_order_id /\ id \notin cancelled /\ ~HasLiveEntry(id)

\* C9: cancel_order(id) returns false and leaves the book as it is when id
\* was never assigned, was fully filled by matching or was cancelled before.
C9_CancelOfTerminalIsNoOp ==
    [][\A id \in OrderIds :
          (/\ CancelOrder(id)
           /\ (NeverAssigned(id) \/ FilledByMatching(id) \/ id \in cancelled))
          => (ret'.result = FALSE /\ UNCHANGED book)]_vars

\* every order was assigned, none cancelled, none is live: the refused
\* cancel_order was for an order filled by matching
C9_Witness ==
    /\ ret.op = "cancel_order"
    /\ ~ret.result
    /\ next_order_id = MaxCalls + 1
    /\ cancelled = {}
    /\ trades # <<>>
    /\ \A i \in SlotIds : ~Live(i)

\* C10: an entry whose quantity is 0 keeps quantity 0, and no later call
\* fills it.
C10_TerminalIsFinal ==
    [][\A i \in SlotIds :
          ~Live(i) =>
              /\ ArenaGet(arena', i).quantity = 0
              /\ \A k \in 1 .. Len(ret'.fills) : ret'.fills[k] # i]_vars

\* a call walked over a cancelled entry and filled the order behind it
C10_Witness == LimitReturned /\ FilledBehindCancelled

\* the highest price at which a live bid rests, None when there is none
BestLiveBid ==
    IF LiveBids = {} THEN None ELSE SetMax({SlotPrice(i) : i \in LiveBids})

\* the lowest price at which a live ask rests, None when there is none
BestLiveAsk ==
    IF LiveAsks = {} THEN None ELSE SetMin({SlotPrice(i) : i \in LiveAsks})

\* C11: once a call of limit_order or cancel_order has returned, best_bid()
\* is the highest price at which a live bid rests and best_ask() the lowest
\* price at which a live ask rests, each None when no such order rests.
C11_BestIsLive ==
    status = "ready" =>
        /\ best_bid(Self) = BestLiveBid
        /\ best_ask(Self) = BestLiveAsk

NonEmptyBids == {p \in Prices : ~is_empty(bids[p])}

NonEmptyAsks == {p \in Prices : ~is_empty(asks[p])}

\* C12: between calls bid_max is None iff every bid PricePoint is empty and
\* otherwise the highest price whose bid PricePoint is non-empty; ask_min is
\* None iff every ask PricePoint is empty and otherwise the lowest price
\* whose ask PricePoint is non-empty.
C12_CachesAreExtremes ==
    status = "ready" =>
        /\ bid_max = (IF NonEmptyBids = {} THEN None ELSE SetMax(NonEmptyBids))
        /\ ask_min = (IF NonEmptyAsks = {} THEN None ELSE SetMin(NonEmptyAsks))

\* a Buy emptied the best ask level and the best ask moved to a higher level
C12_Witness ==
    /\ LimitReturned
    /\ ret.side = "Buy"
    /\ Len(ret.trades) > 0
    /\ ask_min # None
    /\ ask_min > ret.trades[1].price

\* C13: between calls order_index maps id to a slot exactly when that slot
\* holds the order with that id and its quantity is > 0, and
\* snapshot().active_orders is the number of live resting orders.
C13_IndexIsLive ==
    status = "ready" =>
        /\ \A id \in DOMAIN order_index :
              /\ ArenaHas(arena, order_index[id])
              /\ Entry(order_index[id]).order_id = id
              /\ Live(order_index[id])
        /\ \A i \in SlotIds :
              Live(i) => /\ Entry(i).order_id \in DOMAIN order_index
                         /\ order_index[Entry(i).order_id] = i
        /\ snapshot(Self).active_orders = Cardinality({i \in SlotIds : Live(i)})

\* one order was cancelled, one was filled and one is still indexed
C13_Witness ==
    /\ status = "ready"
    /\ cancelled # {}
    /\ \E i \in SlotIds : ~Live(i) /\ Entry(i).order_id \notin cancelled
    /\ DOMAIN order_index # {}

\* C14: a limit_order call returns the value next_order_id had before the
\* call and advances it by exactly 1, whether or not the order rests; the
\* first call on a fresh book returns 1; cancel_order, clear_trades and the
\* queries leave next_order_id as it is.
C14_IdsAdvanceByOne ==
    [][/\ (ret'.op = "limit_order" /\ ret'.result) =>
              /\ ret'.order_id = next_order_id
              /\ next_order_id' = next_order_id + 1
              /\ (calls = 0 => ret'.order_id = 1)
       /\ ret'.op \in {"cancel_order", "clear_trades", "query"} =>
              next_order_id' = next_order_id]_vars

\* the last admissible call matched completely and got the last id
C14_Witness ==
    /\ LimitReturned
    /\ ret.order_id = MaxCalls
    /\ SumQty(ret.trades) = ret.quantity
    /\ RestedQty = 0

\* every slot that carries an id of the index is the slot the index names
OneOrderPerId(a, index) ==
    \A id \in DOMAIN index :
        \A i \in 0 .. (Len(a.entries) - 1) :
            ArenaGet(a, i).order_id = id => index[id] = i

\* C15: over limit_order, cancel_order, set_next_order_id and clear_trades,
\* no limit_order call returns an id that an earlier call returned, and no
\* id of order_index was given to two orders.
C15_IdsAreUnique ==
    [][/\ (ret'.op = "limit_order" /\ ret'.result) => ret'.order_id \notin returned
       /\ OneOrderPerId(arena', order_index')]_vars

\* C16: every limit_order call with a price in [0, max_price) and a
\* quantity > 0 terminates from every reachable book.
C16_LimitOrderTerminates == ret.op = "limit_order" => status # "hung"

\* C17: a limit_order call made when the arena is full, whose matching ends
\* with a remainder to rest, reports an error and leaves the book as it was.
C17_FullArenaIsRefused ==
    [][(/\ ret'.op = "limit_order"
        /\ arena.next_free >= arena.capacity
        /\ status' # "hung"
        /\ SumQty(ret'.trades) < ret'.quantity)
       => (status' = "ready" /\ ~ret'.result /\ UNCHANGED book)]_vars

\* C18: a limit_order call with a price outside [0, max_price) is refused
\* with an error and leaves the book as it was.
C18_InvalidPriceIsRejected ==
    [][(ret'.op = "limit_order" /\ ret'.price \notin Prices)
       => (status' = "ready" /\ ~ret'.result /\ UNCHANGED book)]_vars

\* C19: a limit_order call with quantity 0 or price 0 is refused with an
\* error, consumes no order id and changes nothing else.
C19_InvalidOrderIsRejected ==
    [][(ret'.op = "limit_order" /\ (ret'.quantity = 0 \/ ret'.price = 0))
       => (/\ status' = "ready"
           /\ ~ret'.result
           /\ next_order_id' = next_order_id
           /\ UNCHANGED book)]_vars

\* C20: a limit_order call leaves trades() equal to its content before the
\* call followed by the trades the call returned, in their order, and
\* cancel_order leaves trades() as it is.
C20_LogAppendsReturned ==
    [][/\ (ret'.op = "limit_order" /\ ret'.result) => trades' = trades \o ret'.trades
       /\ ret'.op = "cancel_order" => trades' = trades]_vars

\* a call returned trades and the log held other trades before it
C20_Witness ==
    /\ LimitReturned
    /\ Len(ret.trades) > 0
    /\ Len(trades) > Len(ret.trades)

\* C21: spread() returns Some(ask_min - bid_max) exactly when both best
\* prices are present and ask_min > bid_max, and None in every other case.
C21_SpreadOfBestPrices ==
    ret.op = "spread" =>
        /\ (ask_min # None /\ bid_max # None /\ ask_min > bid_max)
              => ret.value = ask_min - bid_max
        /\ (ask_min = None \/ bid_max = None \/ ask_min <= bid_max)
              => ret.value = None

\* spread was asked with both prices present and the bid above the ask
C21_Witness ==
    ret.op = "spread" /\ ask_min # None /\ bid_max # None /\ ask_min < bid_max

\* C22: mid_price() returns Some(floor((ask_min + bid_max) / 2)) whenever
\* both best prices are present and None otherwise, for every pair of prices
\* a book can hold (a best bid below the best ask).
C22_MidPriceIsTheMean ==
    (ret.op = "mid_price" /\ (ask_min = None \/ bid_max < ask_min)) =>
        /\ status = "ready"
        /\ ret.value = (IF ask_min # None /\ bid_max # None
                        THEN (ask_min + bid_max) \div 2
                        ELSE None)

\* C23: in every trade of a Buy aggressor buyer is the aggressor's trader and
\* seller the resting order's trader; in every trade of a Sell aggressor
\* seller is the aggressor's trader and buyer the resting order's trader.
C23_TradeParties ==
    ret.op = "limit_order" =>
        \A k \in 1 .. Len(ret.trades) :
            IF ret.side = "Buy"
            THEN /\ ret.trades[k].buyer = ret.trader
                 /\ ret.trades[k].seller = Entry(ret.fills[k]).trader
            ELSE /\ ret.trades[k].seller = ret.trader
                 /\ ret.trades[k].buyer = Entry(ret.fills[k]).trader

\* a Sell aggressor traded with a resting bid of another trader
C23_Witness ==
    /\ LimitReturned
    /\ ret.side = "Sell"
    /\ \E k \in 1 .. Len(ret.trades) : Entry(ret.fills[k]).trader # ret.trader

\* C24: on an arena created with capacity c, allocate succeeds iff
\* len() < c, the k-th successful allocate returns index k - 1, and an
\* allocate on a full arena returns None and leaves the arena as it is.
C24_AllocateInOrder ==
    [][ret'.op = "allocate" =>
          /\ (ret'.idx # None) <=> (ArenaLen(arena) < ArenaCapacity(arena))
          /\ (ret'.idx # None /\ ~ret.cleared) => ret'.idx = ret'.allocated - 1
          /\ ret'.idx = None => arena' = arena]_vars

\* max_orders allocations succeeded and the next one was refused
C24_Witness ==
    /\ ret.op = "allocate"
    /\ ret.idx = None
    /\ ~ret.cleared
    /\ ret.allocated = max_orders

\* what clear() leaves, whatever the arena's capacity: len() is 0,
\* remaining_capacity() is capacity() and get(i) is None for every index
ClearedArena(a) ==
    /\ ArenaLen(a) = 0
    /\ ArenaRemainingCapacity(a) = ArenaCapacity(a)
    /\ \A i \in 0 .. (max_orders - 1) : ~ArenaHas(a, i)

\* C25 as stated: after clear() the arena is empty and the next allocate
\* returns index 0; in every state len() + remaining_capacity() = capacity().
C25_ClearResets ==
    [][/\ ret'.op = "clear" => ClearedArena(arena')
       /\ (ret.op = "clear" /\ ret'.op = "allocate") => ret'.idx = 0
       /\ ArenaLen(arena') + ArenaRemainingCapacity(arena') = ArenaCapacity(arena')]_vars

\* C25: after clear() the arena is empty and, when capacity() > 0, the next
\* allocate returns index 0 (with capacity 0 it returns None); in every
\* state len() + remaining_capacity() = capacity().
C25_ClearResetsWithCapacity ==
    [][/\ ret'.op = "clear" => ClearedArena(arena')
       /\ (ret.op = "clear" /\ ret'.op = "allocate") =>
              ret'.idx = (IF ArenaCapacity(arena) > 0 THEN 0 ELSE None)
       /\ ArenaLen(arena') + ArenaRemainingCapacity(arena') = ArenaCapacity(arena')]_vars

\* a full arena was cleared and the allocate after it returned index 0
C25_Witness ==
    /\ ret.op = "allocate"
    /\ ret.cleared
    /\ ret.idx = 0
    /\ ret.allocated = max_orders + 1

\* C26: cancel_order(id) on a live order sets that order's quantity to 0 and
\* removes its order_index entry, and changes nothing else: the price
\* levels, every next_idx, every other entry, bid_max, ask_min, the trade
\* log and next_order_id stay as they are.
C26_CancelFrame ==
    [][\A id \in OrderIds :
          (CancelOrder(id) /\ ret'.result) =>
              /\ Len(arena'.entries) = Len(arena.entries)
              /\ \A i \in SlotIds :
                    ArenaGet(arena', i) =
                        IF Entry(i).order_id = id
                        THEN [Entry(i) EXCEPT !.quantity = 0]
                        ELSE Entry(i)
              /\ DOMAIN order_index' = DOMAIN order_index \ {id}
              /\ \A x \in DOMAIN order_index' : order_index'[x] = order_index[x]
              /\ UNCHANGED <<bids, asks, bid_max, ask_min, trades, next_order_id>>]_vars

\* the order cancelled last is the head of a level with a live order behind it
C26_Witness ==
    /\ ret.op = "cancel_order"
    /\ ret.result
    /\ \E d \in SlotIds, f \in SlotIds :
          /\ SameLevel(d, f)
          /\ Entry(d).order_id \in cancelled
          /\ Entry(d).next_idx = f
          /\ Live(f)

\* the price point of a side and price
Level(side, p) == IF side = "Buy" THEN bids[p] ELSE asks[p]

\* the live entries resting at a side and price
LiveAt(side, p) ==
    {i \in SlotIds : SlotSide(i) = side /\ SlotPrice(i) = p /\ Live(i)}

\* the entries linked from idx on
RECURSIVE ChainFrom(_)
ChainFrom(idx) ==
    IF idx = None THEN {} ELSE {idx} \cup ChainFrom(Entry(idx).next_idx)

\* the side a limit_order of this side matches against
Opposite(side) == IF side = "Buy" THEN "Sell" ELSE "Buy"

\* first_idx is the first live entry of the level, or the level is empty
\* when it holds no live entry
Pruned(side, p) ==
    IF LiveAt(side, p) = {}
    THEN Level(side, p).first_order_idx = None /\ Level(side, p).last_order_idx = None
    ELSE Level(side, p).first_order_idx = SetMin(LiveAt(side, p))

\* C27: when a limit_order call returns, every level it matched at has
\* first_idx on the first live entry of its chain, or is empty (first_idx
\* and last_idx None) when its chain holds no live entry.
C27_TraversedLevelPruned ==
    LimitReturned =>
        \A k \in 1 .. Len(ret.trades) : Pruned(Opposite(ret.side), ret.trades[k].price)

Best(side) == IF side = "Buy" THEN bid_max ELSE ask_min

\* the same two after the step
LevelAfter(side, p) == IF side = "Buy" THEN bids'[p] ELSE asks'[p]

BestAfter(side) == IF side = "Buy" THEN bid_max' ELSE ask_min'

\* no live order of the opposite side rests at a price the order reaches
NoMarketableLiquidity(side, price) ==
    \A i \in SlotIds :
        (SlotSide(i) = Opposite(side) /\ Live(i)) => NonMarketable(side, price, SlotPrice(i))

\* C29: a limit_order call whose matching leaves remaining > 0 rests exactly
\* the remainder as one new entry at the tail of the level of its side and
\* price, maps its id in order_index, and moves the side's cached best price
\* to its price iff the cache was None or its price is strictly better; with
\* no marketable opposite liquidity it returns no trade and rests it all.
C29_RestsRemainder ==
    [][(ret'.op = "limit_order" /\ ret'.result /\ SumQty(ret'.trades) < ret'.quantity) =>
          /\ Len(arena'.entries) = Len(arena.entries) + 1
          /\ ArenaGet(arena', Len(arena.entries)) =
                 [order_id |-> ret'.order_id, trader |-> ret'.trader,
                  quantity |-> ret'.quantity - SumQty(ret'.trades), next_idx |-> None]
          /\ LevelAfter(ret'.side, ret'.price).last_order_idx = Len(arena.entries)
          /\ Level(ret'.side, ret'.price).last_order_idx # None =>
                 ArenaGet(arena', Level(ret'.side, ret'.price).last_order_idx).next_idx
                     = Len(arena.entries)
          /\ ret'.order_id \in DOMAIN order_index'
          /\ order_index'[ret'.order_id] = Len(arena.entries)
          /\ BestAfter(ret'.side) =
                 (IF Best(ret'.side) = None
                     \/ Better(Opposite(ret'.side), ret'.price, Best(ret'.side))
                  THEN ret'.price ELSE Best(ret'.side))
          /\ NoMarketableLiquidity(ret'.side, ret'.price) =>
                 ret'.trades = <<>>]_vars

\* the order rested behind an older entry of its level, at a price worse
\* than the side's best
C29_Witness ==
    /\ LimitReturned
    /\ RestedQty = ret.quantity
    /\ \E d \in SlotIds :
          Entry(d).next_idx # None /\ Entry(Entry(d).next_idx).order_id = ret.order_id
    /\ Better(Opposite(ret.side), Best(ret.side), ret.price)

\* C30: a resting order that a limit_order call fills in part stays in
\* order_index, so that cancel_order on it returns true, stays the head of its
\* level with every later live order of the level behind it, and the cached
\* best price of its side, if it was the order's price, is unchanged.
C30_PartialFillStaysActive ==
    [][\A i \in SlotIds :
          (/\ ret'.op = "limit_order"
           /\ ret'.result
           /\ ArenaGet(arena', i).quantity > 0
           /\ ArenaGet(arena', i).quantity < Entry(i).quantity)
          => /\ cancel_order(Self, Entry(i).order_id)'.result
             /\ LevelAfter(SlotSide(i), SlotPrice(i)).first_order_idx = i
             /\ ArenaGet(arena', i).next_idx = Entry(i).next_idx
             /\ \A j \in SlotIds :
                   (j > i /\ SameLevel(i, j) /\ Live(j)) => ArenaGet(arena', j) = Entry(j)
             /\ Best(SlotSide(i)) = SlotPrice(i) => BestAfter(SlotSide(i)) = SlotPrice(i)]_vars

\* an order was filled in part while a later order waits behind it
C30_Witness ==
    /\ LimitReturned
    /\ \E f \in Filled, b \in SlotIds : f < b /\ SameLevel(f, b) /\ Live(f) /\ Live(b)

\* the last step was a limit_order call that returned with a remainder to rest
RestedAfter ==
    /\ ret'.op = "limit_order"
    /\ ret'.result
    /\ SumQty(ret'.trades) < ret'.quantity

\* C31: under limit_order and cancel_order the arena's length never decreases
\* and grows by exactly one precisely when a limit_order rests a remainder; a
\* slot keeps the order it was allocated for, and the length never passes the
\* capacity, so a book of max_orders = n rests at most n orders in its lifetime
C31_ArenaOnlyGrows ==
    [][/\ Len(arena'.entries) >= Len(arena.entries)
       /\ Len(arena'.entries) <= Len(arena.entries) + 1
       /\ (Len(arena'.entries) = Len(arena.entries) + 1) <=> RestedAfter
       /\ \A i \in SlotIds :
              /\ ArenaGet(arena', i).order_id = Entry(i).order_id
              /\ ArenaGet(arena', i).trader = Entry(i).trader
       /\ arena'.capacity = arena.capacity
       /\ arena'.next_free = Len(arena'.entries)
       /\ Len(arena'.entries) <= arena.capacity
       /\ Cardinality(returned') <= Cardinality(returned) + 1]_vars

\* every slot of the arena has been used and holds a dead entry, and the call
\* that needed one more was refused
C31_Witness ==
    /\ status = "panic"
    /\ Len(arena.entries) = arena.capacity
    /\ \A i \in SlotIds : ~Live(i)
    /\ cancelled # {}

\* the last step was a limit_order call that returned fully matched
FullyMatchedAfter ==
    /\ ret'.op = "limit_order"
    /\ ret'.result
    /\ SumQty(ret'.trades) = ret'.quantity

\* C32: a limit order that is fully matched on arrival never rests: it gets no
\* arena slot and no order_index entry, the levels and the best price of its
\* own side are as before the call, and cancel_order with its id returns false
C32_FullyMatchedNeverRests ==
    [][FullyMatchedAfter =>
          /\ Len(arena'.entries) = Len(arena.entries)
          /\ \A i \in SlotIds : ArenaGet(arena', i).order_id # ret'.order_id
          /\ ret'.order_id \notin DOMAIN order_index'
          /\ DOMAIN order_index' \subseteq DOMAIN order_index
          /\ \A p \in Prices : LevelAfter(ret'.side, p) = Level(ret'.side, p)
          /\ BestAfter(ret'.side) = Best(ret'.side)
          /\ \A id \in OrderIds :
                 id = ret'.order_id => ~(cancel_order(Self, id).result)']_vars

\* a call was fully matched while its own side held a live order
C32_Witness ==
    /\ LimitReturned
    /\ SumQty(ret.trades) = ret.quantity
    /\ \E i \in SlotIds : Live(i) /\ SlotSide(i) = ret.side

\* a book without its trade log
Logless(self) == [self EXCEPT !.trades = <<>>]

\* two limit_order results that differ at most in the log of the book they leave
SameLimitResult(r1, r2) ==
    /\ r1.order_id = r2.order_id
    /\ r1.trades = r2.trades
    /\ r1.fills = r2.fills
    /\ r1.outcome = r2.outcome
    /\ Logless(r1.self) = Logless(r2.self)

\* two cancel_order results that differ at most in the log of the book they leave
SameCancelResult(r1, r2) ==
    /\ r1.result = r2.result
    /\ Logless(r1.self) = Logless(r2.self)

\* C33: clear_trades empties the log and changes nothing else, and a
\* limit_order or cancel_order made on the cleared book returns what it returns
\* on the book with the log kept, and leaves the same book but for the log
C33_ClearTradesFrame ==
    [][ret'.op = "clear_trades" =>
          /\ trades' = <<>>
          /\ UNCHANGED <<bids, asks, arena, order_index, bid_max, ask_min,
                         next_order_id, status>>
          /\ \A trader \in Traders, side \in Sides, price \in Prices,
                quantity \in Quantities :
                 trades # <<>> =>
                 SameLimitResult(limit_order(Self, trader, side, price, quantity),
                                 limit_order(clear_trades(Self), trader, side,
                                             price, quantity))
          /\ \A order_id \in OrderIds :
                 trades # <<>> =>
                 SameCancelResult(cancel_order(Self, order_id),
                                  cancel_order(clear_trades(Self), order_id))]_vars

\* the log was cleared while the book had traded and held a live bid and a
\* live ask
C33_Witness ==
    /\ ret.op = "clear_trades"
    /\ trades = <<>>
    /\ \E i \in SlotIds : ~Live(i) /\ Entry(i).order_id \notin cancelled
    /\ LiveBids # {}
    /\ LiveAsks # {}

\* a sequence of trades with every buyer and seller replaced by one trader
Anonymous(ts) ==
    [k \in 1 .. Len(ts) |-> [ts[k] EXCEPT !.buyer = "T1", !.seller = "T1"]]

\* a book with every TraderId in it replaced by one trader
AnonymousBook(self) ==
    [self EXCEPT
        !.arena.entries = [k \in 1 .. Len(self.arena.entries) |->
                              [self.arena.entries[k] EXCEPT !.trader = "T1"]],
        !.trades = Anonymous(self.trades)]

\* two limit_order results that differ at most in TraderIds
SameButTraders(r1, r2) ==
    /\ r1.order_id = r2.order_id
    /\ Anonymous(r1.trades) = Anonymous(r2.trades)
    /\ r1.fills = r2.fills
    /\ r1.outcome = r2.outcome
    /\ AnonymousBook(r1.self) = AnonymousBook(r2.self)

\* C34: a call's order id, trade prices and quantities, cancel result and the
\* book it leaves, best bid and best ask included, do not depend on TraderIds:
\* from every reachable book, a call gives the same as the call made by one
\* fixed trader on the book with every TraderId replaced by that trader, so two
\* runs of a call sequence that differ only in TraderIds agree call by call
C34_TraderBlind ==
    status = "ready" =>
        /\ \A trader \in Traders, side \in Sides, price \in Prices,
              quantity \in Quantities :
               SameButTraders(limit_order(Self, trader, side, price, quantity),
                              limit_order(AnonymousBook(Self), "T1", side, price,
                                          quantity))
        /\ \A order_id \in OrderIds :
               /\ cancel_order(Self, order_id).result
                      = cancel_order(AnonymousBook(Self), order_id).result
               /\ AnonymousBook(cancel_order(Self, order_id).self)
                      = AnonymousBook(cancel_order(AnonymousBook(Self), order_id).self)

\* an order traded with a resting order of its own trader and with one of
\* another trader
C34_Witness ==
    /\ LimitReturned
    /\ \E k \in 1 .. Len(ret.trades) : ret.trades[k].buyer = ret.trades[k].seller
    /\ \E k \in 1 .. Len(ret.trades) : ret.trades[k].buyer # ret.trades[k].seller

\* the entries linked from idx on, in order, at most n of them
RECURSIVE ChainSeq(_, _)
ChainSeq(idx, n) ==
    IF idx = None \/ n = 0 THEN <<>>
    ELSE <<idx>> \o ChainSeq(Entry(idx).next_idx, n - 1)

\* the chain of a level; a chain that closes on itself comes out longer than
\* the arena
LevelChain(side, p) ==
    ChainSeq(Level(side, p).first_order_idx, Len(arena.entries) + 1)

\* the levels whose chain holds slot i
LevelsHolding(i) ==
    {sp \in Sides \X Prices :
        \E k \in 1 .. Len(LevelChain(sp[1], sp[2])) : LevelChain(sp[1], sp[2])[k] = i}

\* C35: between calls, for every level, first_idx is None exactly when last_idx
\* is; following next_idx from first_idx visits no slot twice, goes in arrival
\* order and ends at last_idx, whose next_idx is None; and every live order is
\* reachable from the first_idx of exactly one level, that of its side and price
C35_ChainsWellFormed ==
    status = "ready" =>
        /\ \A side \in Sides, p \in Prices :
               /\ Level(side, p).first_order_idx = None
                     <=> Level(side, p).last_order_idx = None
               /\ Len(LevelChain(side, p)) <= Len(arena.entries)
               /\ \A j, k \in 1 .. Len(LevelChain(side, p)) :
                      j < k => LevelChain(side, p)[j] < LevelChain(side, p)[k]
               /\ Level(side, p).first_order_idx # None =>
                      /\ LevelChain(side, p)[Len(LevelChain(side, p))]
                             = Level(side, p).last_order_idx
                      /\ Entry(Level(side, p).last_order_idx).next_idx = None
        /\ \A i \in SlotIds :
               Live(i) => LevelsHolding(i) = {<<SlotSide(i), SlotPrice(i)>>}

\* a level holds three entries in a row, the middle one cancelled
C35_Witness ==
    /\ status = "ready"
    /\ \E side \in Sides, p \in Prices :
          /\ Len(LevelChain(side, p)) = 3
          /\ Live(LevelChain(side, p)[1])
          /\ ~Live(LevelChain(side, p)[2])
          /\ Live(LevelChain(side, p)[3])

\* C36: between calls the quantities of all limit orders submitted sum to twice
\* the quantities of all trades, plus the quantities of the live resting
\* orders, plus the quantities that were still open when orders were cancelled
C36_QuantityConserved ==
    status = "ready" =>
        submitted = 2 * SumQty(trades) + SumQty(arena.entries) + cancelled_open

\* the book has traded, holds a live order, and an order was cancelled with
\* quantity still open
C36_Witness ==
    /\ status = "ready"
    /\ trades # <<>>
    /\ SumQty(arena.entries) > 0
    /\ cancelled_open > 0

\* C37: every trade of a limit_order has quantity at least 1 and at most the
\* quantity the resting order had before the fill, the filled entry was live,
\* and no resting quantity goes below 0
C37_TradeWithinResting ==
    [][ret'.op = "limit_order" =>
          /\ Len(ret'.fills) = Len(ret'.trades)
          /\ \A k \in 1 .. Len(ret'.trades) :
                 /\ ret'.fills[k] \in SlotIds
                 /\ Live(ret'.fills[k])
                 /\ ret'.trades[k].quantity >= 1
                 /\ ret'.trades[k].quantity <= Entry(ret'.fills[k]).quantity
                 /\ ArenaGet(arena', ret'.fills[k]).quantity
                        = Entry(ret'.fills[k]).quantity - ret'.trades[k].quantity
          /\ \A i \in SlotIds :
                 /\ ArenaGet(arena', i).quantity >= 0
                 /\ ArenaGet(arena', i).quantity <= u32_MAX
                 /\ ~Live(i) => ArenaGet(arena', i).quantity = 0
          /\ \A k \in 1 .. Len(trades') : trades'[k].quantity >= 1]_vars

\* a call walked over a cancelled entry and filled the live entry behind it
\* in part
C37_Witness ==
    /\ LimitReturned
    /\ FilledBehindCancelled
    /\ \E f \in Filled : Live(f)

\* the level of the call's own side at price p is as before the call, or it
\* is the level of the call's price with the new slot appended
OwnLevelKept(p) ==
    \/ LevelAfter(ret'.side, p) = Level(ret'.side, p)
    \/ /\ p = ret'.price
       /\ Len(arena'.entries) = Len(arena.entries) + 1
       /\ LevelAfter(ret'.side, p).last_order_idx = Len(arena.entries)
       /\ LevelAfter(ret'.side, p).first_order_idx
             = IF Level(ret'.side, p).first_order_idx = None
               THEN Len(arena.entries)
               ELSE Level(ret'.side, p).first_order_idx
       /\ ArenaGet(arena', Len(arena.entries)).next_idx = None

\* the slot i of the call's own side is as before the call, but for the old
\* tail of the call's level, whose next_idx goes from None to the new slot
OwnEntryKept(i) ==
    /\ ArenaGet(arena', i).quantity = Entry(i).quantity
    /\ ArenaGet(arena', i).order_id = Entry(i).order_id
    /\ \/ ArenaGet(arena', i).next_idx = Entry(i).next_idx
       \/ /\ Entry(i).next_idx = None
          /\ i = Level(ret'.side, ret'.price).last_order_idx
          /\ Len(arena'.entries) = Len(arena.entries) + 1
          /\ ArenaGet(arena', i).next_idx = Len(arena.entries)

\* C38: a limit_order on side S changes neither the quantity nor the links nor
\* the queue position of an order already resting on side S: it can only
\* append one new entry at the tail of the level of its price, and every
\* decrement of the call is on the opposite side
C38_OwnSideUntouched ==
    [][ret'.op = "limit_order" =>
          /\ \A i \in SlotIds : SlotSide(i) = ret'.side => OwnEntryKept(i)
          /\ \A p \in Prices : OwnLevelKept(p)
          /\ \A i \in SlotIds :
                 ArenaGet(arena', i).quantity < Entry(i).quantity
                     => SlotSide(i) = Opposite(ret'.side)]_vars

\* a call traded and then rested its remainder while an earlier order of its
\* own side was live
C38_Witness ==
    /\ LimitReturned
    /\ ret.trades # <<>>
    /\ RestedQty > 0
    /\ \E i \in SlotIds :
          /\ Live(i)
          /\ SlotSide(i) = ret.side
          /\ Entry(i).order_id # ret.order_id

\* an Option<index> that is None or a slot of the arena
ValidIndex(idx) == idx = None \/ idx \in SlotIds

====
